---- MODULE Spec2Model ----
(***************************************************************************)
(* Model of ion_functions/data/generic_functions.py.                       *)
(*                                                                         *)
(* Floating point values are records [nan, num, den]: NaN, or the rational *)
(* num/den.  Timestamps are counted in minutes (the NTP/Unix offset of     *)
(* 2208988800 s is 36816480 min, a day is 1440 min), so that every value   *)
(* stays inside TLC's 32-bit integers.                                     *)
(***************************************************************************)
EXTENDS Integers, Sequences, FiniteSets, TLC

VARIABLES pc, call, result, resource, wmm_model, wmm, built, n, out,
          modelCalls

vars == <<pc, call, result, resource, wmm_model, wmm, built, n, out,
          modelCalls>>

\* ------------------------------------------------------------------ bounds
MaxLen == 3

MaxX == 1

MaxY == 1

\* --------------------------------------------------------- floating point
NaN == [nan |-> TRUE, num |-> 0, den |-> 1]

Fl(k) == [nan |-> FALSE, num |-> k, den |-> 1]

\* a - k, k an integer
FSub(a, k) == IF a.nan THEN NaN ELSE [a EXCEPT !.num = a.num - k * a.den]

\* a / k, k a positive integer
FDiv(a, k) == IF a.nan THEN NaN ELSE [a EXCEPT !.den = a.den * k]

\* k * a, k an integer
FMul(k, a) == IF a.nan THEN NaN ELSE [a EXCEPT !.num = k * a.num]

\* a + b
FAdd(a, b) ==
    IF a.nan \/ b.nan THEN NaN
    ELSE [nan |-> FALSE, num |-> a.num * b.den + b.num * a.den,
          den |-> a.den * b.den]

\* a * b
FTimes(a, b) ==
    IF a.nan \/ b.nan THEN NaN
    ELSE [nan |-> FALSE, num |-> a.num * b.num, den |-> a.den * b.den]

\* a > k; every comparison with NaN is false
FGt(a, k) == ~a.nan /\ a.num > k * a.den

\* the same float: both NaN, or equal rationals
FSame(a, b) ==
    IF a.nan \/ b.nan THEN a.nan /\ b.nan
    ELSE a.num * b.den = b.num * a.den

\* Python's a & b on the integers the depth test applies it to
BitAnd(a, b) ==
    IF a = 0 \/ b = 0 THEN 0
    ELSE IF a = -1 THEN b
    ELSE IF b = -1 THEN a
    ELSE IF a = b THEN a
    ELSE 0

\* ------------------------------------------------------------- set_wmm_model
NTP_DELTA_MIN == 36816480

MinutesPerDay == 1440

ModelYear == 2010

None == [none |-> TRUE]

Ok(v) == [raised |-> FALSE, err |-> "", val |-> v]

Raise(e) == [raised |-> TRUE, err |-> e, val |-> None]

\* 'WMM%4d.COF' % year
CofFile(year) == <<"WMM", year, ".COF">>

\* resolves: pkg_resources.resource_filename returns a file name; otherwise
\* it raises ResolutionError and the handler evaluates
\*   "... %s ... %4d ..." % e, year
\* whose format has two conversions and one argument: TypeError.
set_wmm_model(year, resolves) ==
    IF resolves THEN Ok(CofFile(year))
    ELSE Raise("TypeError")

\* --------------------------------------------------- the geomagnetic model
\* wmm.declination(lat, lon, z, dates) of the WMM instance inst: an
\* uninterpreted value of its arguments; NaN in, NaN out.
declination(inst, lat, lon, z, date) ==
    IF lat.nan \/ lon.nan \/ z.nan
    THEN [nan |-> TRUE, lat |-> NaN, lon |-> NaN, z |-> NaN, date |-> 0]
    ELSE [nan |-> FALSE, lat |-> lat, lon |-> lon, z |-> z, date |-> date]

\* ------------------------------------------------- wmm_declination_remod
\* datetime.datetime.utcfromtimestamp(unix_timestamp).date(), as the number
\* of the day since 1970-01-01; NaN raises ValueError
utc_date(unix) ==
    IF unix.nan THEN Raise("ValueError")
    ELSE Ok(unix.num \div (unix.den * MinutesPerDay))

\* z > 0 & zflag == -1  parses as the chain  z > (0 & zflag) == -1
depth_test(z, zflag) ==
    LET t == BitAnd(0, zflag) IN FGt(z, t) /\ t = -1

\* a depth test that is the conjunction of its two comparisons
model_depth_Conjunction(z, zflag) ==
    LET zk == FDiv(z, 1000) IN
    IF FGt(zk, 0) /\ zflag = -1 THEN FMul(zflag, zk) ELSE zk

\* z = z / 1000. ; if <test>: z = zflag * z
model_depth(z, zflag) ==
    LET zk == FDiv(z, 1000) IN
    IF depth_test(zk, zflag) THEN FMul(zflag, zk) ELSE zk

\* the body shared by wmm_declination and wmm_declination_remod once the
\* model is at hand: the arguments handed to wmm.declination (with the index
\* elem of the element they come from) and its result
wmm_declination_remod(lat, lon, ntp_timestamp, inst, z, zflag, elem) ==
    LET unix_timestamp == FSub(ntp_timestamp, NTP_DELTA_MIN)
        dates == utc_date(unix_timestamp)
        zm == model_depth(z, zflag)
    IN  IF dates.raised THEN [raised |-> TRUE, err |-> dates.err,
                              args |-> None, val |-> None]
        ELSE [raised |-> FALSE, err |-> "",
              args |-> [elem |-> elem, inst |-> inst, lat |-> lat,
                        lon |-> lon, z |-> zm, date |-> dates.val],
              val |-> declination(inst, lat, lon, zm, dates.val)]

\* ------------------------------------------------------- wmm_declination
\* the whole of wmm_declination: the date, then its own model (instance 1
\* of the call), the depth, the declination
wmm_declination(lat, lon, ntp_timestamp, z, zflag, resolves) ==
    LET unix_timestamp == FSub(ntp_timestamp, NTP_DELTA_MIN)
        dates == utc_date(unix_timestamp)
        m == set_wmm_model(ModelYear, resolves)
        zk == FDiv(z, 1000)
        zm == IF depth_test(zk, zflag) THEN FMul(zflag, zk) ELSE zk
    IN  IF dates.raised
        THEN [raised |-> TRUE, err |-> dates.err, resource |-> "unknown",
              args |-> None, val |-> None]
        ELSE IF m.raised
        THEN [raised |-> TRUE, err |-> m.err, resource |-> "missing",
              args |-> None, val |-> None]
        ELSE [raised |-> FALSE, err |-> "", resource |-> "found",
              args |-> [elem |-> 1, inst |-> 1, lat |-> lat, lon |-> lon,
                        z |-> zm, date |-> dates.val],
              val |-> declination(1, lat, lon, zm, dates.val)]

\* ------------------------------------------------------- ntp_to_unix_time
NTP_EPOCH_YEAR == 1900

\* time.gmtime(0)[0]
SYSTEM_EPOCH_YEAR == 1970

\* a calendar with a leap year every fourth year
days_before_year_Julian(year) ==
    LET y == year - 1 IN y * 365 + y \div 4

\* the days before January 1st of the year, as datetime.date counts them
days_before_year(year) ==
    LET y == year - 1 IN y * 365 + y \div 4 - y \div 100 + y \div 400

\* datetime.date(year, 1, 1).toordinal()
new_year_ordinal(year) == days_before_year(year) + 1

\* (SYSTEM_EPOCH - NTP_EPOCH).total_seconds(), in minutes
NTP_DELTA ==
    (new_year_ordinal(SYSTEM_EPOCH_YEAR) - new_year_ordinal(NTP_EPOCH_YEAR))
        * MinutesPerDay

\* ne.evaluate('ntp_timestamp - NTP_DELTA'), element by element
ntp_to_unix_time(ntp_timestamp) ==
    Ok([kind |-> ntp_timestamp.kind,
        v |-> [i \in 1..Len(ntp_timestamp.v) |->
                  FSub(ntp_timestamp.v[i], NTP_DELTA)]])

\* ------------------------------------------------------ extract_parameter
\* an index taken as 1-based
extract_parameter_OneBased(in_array, index) ==
    IF index < 1 \/ index > Len(in_array) THEN Raise("IndexError")
    ELSE Ok([out_value |-> in_array[index], in_array |-> in_array])

\* out_value = in_array[index]: 0-based, a negative index counts from the
\* end, anything else is an IndexError; in_array is as it was
extract_parameter(in_array, index) ==
    IF index >= Len(in_array) \/ index < -Len(in_array)
    THEN Raise("IndexError")
    ELSE Ok([out_value |-> IF index >= 0 THEN in_array[index + 1]
                           ELSE in_array[Len(in_array) + index + 1],
             in_array |-> in_array])

\* ----------------------------------------------------------------- inputs
Flags == {-1, 1}

\* 2013-04-15 22:29 UTC, 2010-01-01 00:00 UTC and the minute before it
Timestamps == {59584229, 57854880, 57854879}

Depths == {0, 1000, -1000}

Obs(la, lo, t, z) == [lat |-> la, lon |-> lo, ts |-> t, z |-> z]

ObsSet ==
    { Obs(Fl(45), Fl(-128), Fl(t), Fl(z)) : t \in Timestamps, z \in Depths }
    \cup { Obs(NaN, Fl(-128), Fl(59584229), Fl(1000)),
           Obs(Fl(45), NaN, Fl(59584229), Fl(1000)),
           Obs(Fl(45), Fl(-128), NaN, Fl(1000)),
           Obs(Fl(45), Fl(-128), Fl(59584229), NaN) }

\* the observations the batches of one length are made of
BatchObs ==
    { Obs(Fl(45), Fl(-128), Fl(59584229), Fl(1000)),
      Obs(Fl(45), Fl(-128), Fl(57854880), Fl(0)),
      Obs(Fl(45), Fl(-128), Fl(57854879), Fl(-1000)) }
    \cup { o \in ObsSet : o.lat.nan \/ o.lon.nan \/ o.ts.nan \/ o.z.nan }

\* the observation at index i of the batches of unequal lengths
IndexedObs(i) == Obs(Fl(44 + i), Fl(-128 - i), Fl(57854879 + i), Fl(1000 * i))

Field(batch, len, f) == [i \in 1..len |-> batch[i][f]]

MdArgs(batch, la, lo, lt, lz, zflag) ==
    [op |-> "magnetic_declination",
     lat |-> Field(batch, la, "lat"), lon |-> Field(batch, lo, "lon"),
     ntp_timestamp |-> Field(batch, lt, "ts"), z |-> Field(batch, lz, "z"),
     zflag |-> zflag]

\* the batches whose fields are cut to unequal lengths: all finite, or with
\* a NaN timestamp in front
MixedBatches ==
    LET b == [i \in 1..MaxLen |-> IndexedObs(i)] IN
    {b, [b EXCEPT ![1].ts = NaN]}

MdInputs ==
    { MdArgs(b, Len(b), Len(b), Len(b), Len(b), f) :
        b \in UNION { [1..k -> BatchObs] : k \in 0..MaxLen }, f \in Flags }
    \cup
    { MdArgs(b, l[1], l[2], l[3], l[4], f) :
        b \in MixedBatches, l \in [1..4 -> 0..MaxLen], f \in Flags }

WdInputs ==
    { [op |-> "wmm_declination", lat |-> o.lat, lon |-> o.lon,
       ntp_timestamp |-> o.ts, z |-> o.z, zflag |-> f] :
        o \in ObsSet, f \in Flags }

\* ------------------------------------------------------------ np.vectorize
Max(S) == CHOOSE m \in S : \A k \in S : k <= m

\* the common length the argument lengths broadcast to: lengths 1 stretch,
\* the others must agree; 0 when they do not broadcast
BroadcastLen(lens) ==
    LET others == lens \ {1} IN
    IF others = {} THEN 1
    ELSE IF Cardinality(others) = 1 THEN Max(others)
    ELSE 0

\* a vectorize that took arguments of one length only
Broadcastable_EqualOnly(lens) == Cardinality(lens) = 1

Broadcastable(lens) == Cardinality(lens \ {1}) <= 1

\* element i of an argument broadcast to the common length
At(a, i) == IF Len(a) = 1 THEN a[1] ELSE a[i]

\* --------------------------------------------------- bilinear_interpolation
NotARectangle == "points do not form a rectangle"

NotWithin == "(x, y) not within the rectangle"

\* points is a sequence of four triples <<x, y, value>>; ptype tells a numpy
\* array from a plain list.  points.view(...) exists on arrays only.  The
\* sorted copy pts is never read: the corners are unpacked from points, in
\* the order given, as (x1, y1), (x1, y2), (x2, y1), (x2, y2).  The
\* quotient is one of numpy floats: 0/0 is NaN.
bilinear_interpolation(x, y, points, ptype) ==
    LET x1 == points[1][1]    y1 == points[1][2]    q11 == points[1][3]
        xx1 == points[2][1]   y2 == points[2][2]    q12 == points[2][3]
        x2 == points[3][1]    yy1 == points[3][2]   q21 == points[3][3]
        xx2 == points[4][1]   yy2 == points[4][2]   q22 == points[4][3]
        area == (x2 - x1) * (y2 - y1)
        sum == q11 * (x2 - x) * (y2 - y) + q21 * (x - x1) * (y2 - y)
               + q12 * (x2 - x) * (y - y1) + q22 * (x - x1) * (y - y1)
    IN  IF ptype # "ndarray" THEN Raise("AttributeError")
        ELSE IF x1 # xx1 \/ x2 # xx2 \/ y1 # yy1 \/ y2 # yy2
        THEN Raise(NotARectangle)
        ELSE IF ~(x1 <= x /\ x <= x2) \/ ~(y1 <= y /\ y <= y2)
        THEN Raise(NotWithin)
        ELSE IF area = 0 THEN Ok(NaN)
        ELSE Ok([nan |-> FALSE, num |-> sum, den |-> area])

\* the values of the documented call, by position in the list
DocValues == <<100, 200, 150, 300>>

BiArgs(x, y, points, ptype) ==
    [op |-> "bilinear_interpolation", x |-> x, y |-> y, points |-> points,
     ptype |-> ptype]

\* bilinear_interpolation(12, 5.5, [(10, 4, 100), (20, 4, 200),
\* (10, 6, 150), (20, 6, 300)]), with y counted in halves
DocPoints == <<<<10, 8, 100>>, <<20, 8, 200>>, <<10, 12, 150>>, <<20, 12, 300>>>>

DocCalls == { BiArgs(12, 11, DocPoints, t) : t \in {"list", "ndarray"} }

\* four points on the grid of even coordinates, the documented values
\* attached in the order given
GridPoints ==
    { [i \in 1..4 |-> <<2 * xs[i], 2 * ys[i], DocValues[i]>>] :
        xs \in [1..4 -> 0..MaxX], ys \in [1..4 -> 0..MaxY] }

\* the query points: on the grid, between its lines and just outside it
BiInputs ==
    { BiArgs(x, y, p, "ndarray") :
        x \in -1..(2 * MaxX + 1), y \in -1..(2 * MaxY + 1), p \in GridPoints }
    \cup DocCalls

\* ------------------------------------------------------ magnetic_correction
\* An argument is a scalar (no axis, one element) or a one-dimensional
\* array; v holds its elements.
Scalar(x) == [kind |-> "scalar", v |-> <<x>>]

Array(a) == [kind |-> "array", v |-> a]

\* np.atleast_1d: the one-dimensional array of the elements
atleast_1d(a) == a.v

\* An angle is kept as the point (c/d, s/d) of the unit circle it turns
\* (1, 0) to, c*c + s*s = d*d: np.cos(np.radians(theta)) is c/d and
\* np.sin(np.radians(theta)) is s/d, exactly.
Angle(c, s, d) == [c |-> c, s |-> s, d |-> d]

\* -theta
Neg(t) == [t EXCEPT !.s = -t.s]

\* cosT = np.cos(theta_rad)
Cos(t) == [nan |-> FALSE, num |-> t.c, den |-> t.d]

\* sinT = np.sin(theta_rad)
Sin(t) == [nan |-> FALSE, num |-> t.s, den |-> t.d]

\* a matrix that turns the other way
RotationMatrix_Transposed(t) ==
    << <<Cos(t), FMul(-1, Sin(t))>>, <<Sin(t), Cos(t)>> >>

\* a matrix whose second row lost its -1
RotationMatrix_NoNegation(t) ==
    << <<Cos(t), Sin(t)>>, <<Sin(t), Cos(t)>> >>

\* M = [[cosT, sinT], [-1*sinT, cosT]] for one angle
RotationMatrix(t) ==
    << <<Cos(t), Sin(t)>>, <<FMul(-1, Sin(t)), Cos(t)>> >>

\* np.dot of a 2x2 matrix and the 2xn array [u, v]
Dot(M, B) ==
    [i \in 1..2 |->
        [m \in 1..Len(B[1]) |->
            FAdd(FTimes(M[i][1], B[1][m]), FTimes(M[i][2], B[2][m]))]]

\* np.dot of the 2x2xk array M of an array of k angles and the 2xn array
\* [u, v]: the sum runs over the last axis of M and the first of [u, v], so
\* k must be 2 and the product is 2x2xn:
\*   cor[i][j][m] = M[i][j] at theta[1] * u[m] + M[i][j] at theta[2] * v[m]
Dot3(T, B) ==
    [i \in 1..2 |->
        [j \in 1..2 |->
            [m \in 1..Len(B[1]) |->
                FAdd(FTimes(RotationMatrix(T[1])[i][j], B[1][m]),
                     FTimes(RotationMatrix(T[2])[i][j], B[2][m]))]]]

\* u and v of one length
magnetic_correction(theta, u, v) ==
    LET B == <<atleast_1d(u), atleast_1d(v)>> IN
    IF theta.kind = "scalar"
    THEN LET cor == Dot(RotationMatrix(theta.v[1]), B) IN
         Ok([ndim |-> 1, u_cor |-> cor[1], v_cor |-> cor[2]])
    ELSE IF Len(theta.v) # 2 THEN Raise("ValueError")
    ELSE LET cor == Dot3(theta.v, B) IN
         Ok([ndim |-> 2, u_cor |-> cor[1], v_cor |-> cor[2]])

\* 0, 90 degrees, and the angles of the 3-4-5 and 5-12-13 triangles
Angles ==
    { Angle(1, 0, 1), Angle(0, 1, 1), Angle(3, 4, 5), Angle(-4, 3, 5),
      Angle(5, -12, 13) }

ArrayAngles == { Angle(3, 4, 5), Angle(0, 1, 1) }

\* the pairs (u, v) of velocities
Velocities == { <<Fl(1), Fl(0)>>, <<Fl(2), Fl(-3)>>, <<NaN, Fl(1)>> }

McArgs(theta, u, v) ==
    [op |-> "magnetic_correction", theta |-> theta, u |-> u, v |-> v,
     pass |-> 1]

Firsts(w) == [i \in 1..Len(w) |-> w[i][1]]

Seconds(w) == [i \in 1..Len(w) |-> w[i][2]]

VelocityArrays == UNION { [1..k -> Velocities] : k \in 0..MaxLen }

McInputs ==
    { McArgs(Scalar(t), Array(Firsts(w)), Array(Seconds(w))) :
        t \in Angles, w \in VelocityArrays }
    \cup { McArgs(Scalar(t), Scalar(w[1]), Scalar(w[2])) :
             t \in Angles, w \in Velocities }
    \cup { McArgs(Array(T), Array(Firsts(w)), Array(Seconds(w))) :
             T \in UNION { [1..k -> ArrayAngles] : k \in 1..MaxLen },
             w \in { x \in VelocityArrays : Len(x) >= 1 } }

\* ------------------------------------------- inputs of ntp_to_unix_time
NtpValues == { Fl(t) : t \in Timestamps } \cup {NaN}

NtpInputs ==
    { [op |-> "ntp_to_unix_time", ntp_timestamp |-> t] :
        t \in { Scalar(x) : x \in NtpValues }
              \cup { Array(a) :
                        a \in UNION { [1..k -> NtpValues] : k \in 0..MaxLen } } }

\* ------------------------------------------ inputs of extract_parameter
\* the array of test_extract_parameters
TestArray == <<34, 67, 12, 15, 89, 100, 54, 36>>

EpArgs(a, i) == [op |-> "extract_parameter", in_array |-> a, index |-> i]

EpInputs ==
    { EpArgs(a, i) :
        a \in UNION { [1..k -> {34, 67, 12}] : k \in 0..MaxLen },
        i \in (-MaxLen - 1)..(MaxLen + 1) }
    \cup { EpArgs(TestArray, i) : i \in -9..9 }

\* ------------------------------------------------------------------ state
NoCall == [op |-> "none"]

NoResult == [raised |-> FALSE, err |-> "", val |-> None]

Init ==
    /\ pc = "idle"
    /\ call = NoCall
    /\ result = NoResult
    /\ resource = "unknown"
    /\ wmm_model = None
    /\ wmm = 0
    /\ built = 0
    /\ n = 0
    /\ out = <<>>
    /\ modelCalls = <<>>

\* ------------------------------------------------- magnetic_declination
CallMagneticDeclination ==
    /\ pc = "idle"
    /\ \E a \in MdInputs : call' = a
    /\ pc' = "set_wmm_model"
    /\ UNCHANGED <<result, resource, wmm_model, wmm, built, n, out,
                   modelCalls>>

\* wmm_model = set_wmm_model(2010)
SetWmmModel ==
    /\ pc = "set_wmm_model"
    /\ \E resolves \in BOOLEAN :
         LET r == set_wmm_model(ModelYear, resolves) IN
         /\ resource' = IF resolves THEN "found" ELSE "missing"
         /\ IF r.raised
            THEN /\ result' = r
                 /\ pc' = "done"
                 /\ UNCHANGED wmm_model
            ELSE /\ wmm_model' = r.val
                 /\ pc' = "WMM"
                 /\ UNCHANGED result
    /\ UNCHANGED <<call, wmm, built, n, out, modelCalls>>

\* wmm = WMM(wmm_model)
ConstructWMM ==
    /\ pc = "WMM"
    /\ built' = built + 1
    /\ wmm' = built + 1
    /\ pc' = "vectorize"
    /\ UNCHANGED <<call, result, resource, wmm_model, n, out, modelCalls>>

\* decln(lat, lon, ntp_timestamp, wmm, z, zflag).  np.vectorize refuses an
\* argument of size 0, calls the function once on the first element of every
\* argument to learn the output type, and then broadcasts the arguments to
\* one length.
Vectorize ==
    /\ pc = "vectorize"
    /\ LET lens == {Len(call.lat), Len(call.lon),
                    Len(call.ntp_timestamp), Len(call.z)}
           r == wmm_declination_remod(call.lat[1], call.lon[1],
                                      call.ntp_timestamp[1], wmm,
                                      call.z[1], call.zflag, 1)
       IN  IF 0 \in lens
           THEN /\ result' = Raise("EmptyInput")
                /\ pc' = "done"
                /\ UNCHANGED <<n, modelCalls>>
           ELSE IF r.raised
           THEN /\ result' = Raise(r.err)
                /\ pc' = "done"
                /\ UNCHANGED <<n, modelCalls>>
           ELSE IF ~Broadcastable(lens)
           THEN /\ result' = Raise("ShapeMismatch")
                /\ pc' = "done"
                /\ modelCalls' = Append(modelCalls, r.args)
                /\ UNCHANGED n
           ELSE /\ n' = BroadcastLen(lens)
                /\ pc' = "eval"
                /\ modelCalls' = Append(modelCalls, r.args)
                /\ UNCHANGED result
    /\ UNCHANGED <<call, resource, wmm_model, wmm, built, out>>

\* an element step that builds its own model, as wmm_declination does
EvalElement_Rebuild ==
    /\ pc = "eval"
    /\ LET i == Len(out) + 1
           r == wmm_declination_remod(At(call.lat, i), At(call.lon, i),
                                      At(call.ntp_timestamp, i), built + 1,
                                      At(call.z, i), call.zflag, i)
       IN  /\ built' = built + 1
           /\ wmm' = built + 1
           /\ IF r.raised
              THEN /\ result' = Raise(r.err)
                   /\ pc' = "done"
                   /\ UNCHANGED <<out, modelCalls>>
              ELSE /\ out' = Append(out, r.val)
                   /\ modelCalls' = Append(modelCalls, r.args)
                   /\ IF i = n
                      THEN result' = Ok(out') /\ pc' = "done"
                      ELSE pc' = "eval" /\ UNCHANGED result
    /\ UNCHANGED <<call, resource, wmm_model, n>>

\* one call of wmm_declination_remod by the vectorized loop, on the next
\* element
EvalElement ==
    /\ pc = "eval"
    /\ LET i == Len(out) + 1
           r == wmm_declination_remod(At(call.lat, i), At(call.lon, i),
                                      At(call.ntp_timestamp, i), wmm,
                                      At(call.z, i), call.zflag, i)
       IN  IF r.raised
           THEN /\ result' = Raise(r.err)
                /\ pc' = "done"
                /\ UNCHANGED <<out, modelCalls>>
           ELSE /\ out' = Append(out, r.val)
                /\ modelCalls' = Append(modelCalls, r.args)
                /\ IF i = n
                   THEN result' = Ok(out') /\ pc' = "done"
                   ELSE pc' = "eval" /\ UNCHANGED result
    /\ UNCHANGED <<call, resource, wmm_model, wmm, built, n>>

\* -------------------------------------------------------- wmm_declination
CallWmmDeclination ==
    /\ pc = "idle"
    /\ \E a \in WdInputs, resolves \in BOOLEAN :
         LET r == wmm_declination(a.lat, a.lon, a.ntp_timestamp, a.z,
                                  a.zflag, resolves)
         IN  /\ call' = a
             /\ pc' = "done"
             /\ resource' = r.resource
             /\ UNCHANGED <<n, out>>
             /\ IF r.raised
                THEN /\ result' = Raise(r.err)
                     /\ UNCHANGED <<wmm_model, wmm, built, modelCalls>>
                ELSE /\ wmm_model' = CofFile(ModelYear)
                     /\ wmm' = 1
                     /\ built' = 1
                     /\ modelCalls' = <<r.args>>
                     /\ result' = Ok(r.val)

\* ------------------------------------------------- bilinear_interpolation
CallBilinearInterpolation ==
    /\ pc = "idle"
    /\ \E a \in BiInputs :
         /\ call' = a
         /\ result' = bilinear_interpolation(a.x, a.y, a.points, a.ptype)
    /\ pc' = "done"
    /\ UNCHANGED <<resource, wmm_model, wmm, built, n, out, modelCalls>>

\* --------------------------------------------------- magnetic_correction
CallMagneticCorrection ==
    /\ pc = "idle"
    /\ \E a \in McInputs :
         /\ call' = a
         /\ result' = magnetic_correction(a.theta, a.u, a.v)
    /\ pc' = "done"
    /\ UNCHANGED <<resource, wmm_model, wmm, built, n, out, modelCalls>>

\* the corrected velocities of a first call are corrected again, by the
\* negated angle
CorrectBack ==
    /\ pc = "done"
    /\ call.op = "magnetic_correction"
    /\ call.pass = 1
    /\ call.theta.kind = "scalar"
    /\ ~result.raised
    /\ call' = [call EXCEPT !.pass = 2]
    /\ result' = magnetic_correction(Scalar(Neg(call.theta.v[1])),
                                     Array(result.val.u_cor),
                                     Array(result.val.v_cor))
    /\ UNCHANGED <<pc, resource, wmm_model, wmm, built, n, out, modelCalls>>

\* ------------------------------------------------------- ntp_to_unix_time
CallNtpToUnixTime ==
    /\ pc = "idle"
    /\ \E a \in NtpInputs :
         /\ call' = a
         /\ result' = ntp_to_unix_time(a.ntp_timestamp)
    /\ pc' = "done"
    /\ UNCHANGED <<resource, wmm_model, wmm, built, n, out, modelCalls>>

\* ------------------------------------------------------ extract_parameter
CallExtractParameter ==
    /\ pc = "idle"
    /\ \E a \in EpInputs :
         /\ call' = a
         /\ result' = extract_parameter(a.in_array, a.index)
    /\ pc' = "done"
    /\ UNCHANGED <<resource, wmm_model, wmm, built, n, out, modelCalls>>

\* the call is over: its locals are gone
Return ==
    /\ pc = "done"
    /\ pc' = "idle"
    /\ call' = NoCall
    /\ result' = NoResult
    /\ resource' = "unknown"
    /\ wmm_model' = None
    /\ wmm' = 0
    /\ built' = 0
    /\ n' = 0
    /\ out' = <<>>
    /\ modelCalls' = <<>>

Next ==
    \/ CallMagneticDeclination
    \/ SetWmmModel
    \/ ConstructWMM
    \/ Vectorize
    \/ EvalElement
    \/ CallWmmDeclination
    \/ CallBilinearInterpolation
    \/ CallMagneticCorrection
    \/ CorrectBack
    \/ CallNtpToUnixTime
    \/ CallExtractParameter
    \/ Return

Spec == Init /\ [][Next]_vars

\* ======================================================== the properties
IsMd == call.op = "magnetic_declination"

IsWd == call.op = "wmm_declination"

MdLens == {Len(call.lat), Len(call.lon), Len(call.ntp_timestamp), Len(call.z)}

\* the four arrays have one length, at least 1
MdAligned == Cardinality(MdLens) = 1 /\ 0 \notin MdLens

NaNAt(i) ==
    \/ call.lat[i].nan
    \/ call.lon[i].nan
    \/ call.ntp_timestamp[i].nan
    \/ call.z[i].nan

\* the depth the model is to be given: kilometres, negative for a positive
\* depth below sea level
SpecDepth(z, zflag) ==
    IF FGt(z, 0) /\ zflag = -1 THEN FDiv(FMul(-1, z), 1000)
    ELSE FDiv(z, 1000)

\* the UTC day of the timestamp, counted from 1970-01-01
SpecDate(ts) == (ts.num - NTP_DELTA_MIN * ts.den) \div (ts.den * MinutesPerDay)

\* the depth in metres that the model call k was made for
InputZ(k) == IF IsWd THEN call.z ELSE At(call.z, modelCalls[k].elem)

SameDeclination(a, b) ==
    IF a.nan \/ b.nan THEN a.nan /\ b.nan
    ELSE /\ FSame(a.lat, b.lat)
         /\ FSame(a.lon, b.lon)
         /\ FSame(a.z, b.z)
         /\ a.date = b.date

\* C1: every depth handed to the model, by wmm_declination and by
\* wmm_declination_remod, is -z/1000 when z > 0 and the flag is -1, and
\* z/1000 in every other case.
C1_DepthNormalized ==
    \A k \in 1..Len(modelCalls) :
        FSame(modelCalls[k].z, SpecDepth(InputZ(k), call.zflag))

\* C2: for NaN-free arrays of one length (the model resource at hand, at
\* least one element), magnetic_declination returns an array of that length
\* whose element i is the model's declination at lat[i], lon[i], the
\* normalized depth of z[i] and the UTC day of ts[i].
C2_ElementwiseDeclination ==
    (pc = "done" /\ IsMd /\ resource = "found" /\ MdAligned
        /\ \A i \in 1..Len(call.lat) : ~NaNAt(i))
    => /\ ~result.raised
       /\ Len(result.val) = Len(call.lat)
       /\ \A i \in 1..Len(call.lat) :
            SameDeclination(result.val[i],
                declination(wmm, call.lat[i], call.lon[i],
                            SpecDepth(call.z[i], call.zflag),
                            SpecDate(call.ntp_timestamp[i])))

\* C3: in a call of magnetic_declination at most one model is ever built;
\* it is built before the vectorized evaluation starts, every call of
\* declination is made on that one instance, and a call that returns has
\* evaluated every element on it.
C3_OneSharedModel ==
    IsMd =>
       /\ built <= 1
       /\ (pc \in {"vectorize", "eval"} => built = 1 /\ wmm = 1)
       /\ \A k \in 1..Len(modelCalls) :
            built = 1 /\ modelCalls[k].inst = 1 /\ wmm = 1
       /\ (pc = "done" /\ ~result.raised =>
             /\ built = 1
             /\ \A i \in 1..n : \E k \in 1..Len(modelCalls) :
                    modelCalls[k].elem = i /\ modelCalls[k].inst = wmm)

\* a call over three elements has returned, every element evaluated
C3_Witness ==
    /\ pc = "done"
    /\ IsMd
    /\ ~result.raised
    /\ n = 3
    /\ Len(result.val) = 3
    /\ Len(modelCalls) = 4
    /\ built = 1

\* C4: with aligned arrays and the model at hand, an index where a latitude,
\* longitude, timestamp or depth is NaN gives a NaN output; the call raises
\* nothing and returns every element.
C4_NaNPropagates ==
    (pc = "done" /\ IsMd /\ resource = "found" /\ MdAligned
        /\ \E i \in 1..Len(call.lat) : NaNAt(i))
    => /\ ~result.raised
       /\ Len(result.val) = Len(call.lat)
       /\ \A i \in 1..Len(call.lat) : NaNAt(i) => result.val[i].nan

\* C5 as stated: magnetic_declination never returns a result for arrays
\* that do not all have the same length.
C5_UnequalLengthsFail ==
    (pc = "done" /\ IsMd /\ Cardinality(MdLens) > 1) => result.raised

\* two of the lengths differ and neither is 1
LengthClash == \E a, b \in MdLens : a # b /\ a # 1 /\ b # 1

\* C5, amended: for non-empty arrays, no NaN timestamp and the model at
\* hand, the call fails with the shape-mismatch error exactly when two of
\* the lengths differ and neither is 1; otherwise the arrays of length 1 are
\* broadcast and the result has the largest length.  Whatever the values, a
\* call with clashing lengths or an empty array returns nothing.
C5_BroadcastOrMismatch ==
    (pc = "done" /\ IsMd) =>
       /\ (LengthClash \/ 0 \in MdLens => result.raised)
       /\ (/\ resource = "found"
           /\ 0 \notin MdLens
           /\ \A i \in 1..Len(call.ntp_timestamp) :
                  ~call.ntp_timestamp[i].nan)
          => IF LengthClash
             THEN result.raised /\ result.err = "ShapeMismatch"
             ELSE ~result.raised /\ Len(result.val) = Max(MdLens)

\* arrays of length 1 and of length 3 were broadcast and a result returned
C5_Witness ==
    /\ pc = "done"
    /\ IsMd
    /\ MdLens = {1, 3}
    /\ ~result.raised
    /\ Len(result.val) = 3

\* C6: when the coefficient resource cannot be resolved, the call ends in the
\* error that reports it, and no file name and no model exist.
C6_MissingModelReported ==
    resource = "missing" =>
       /\ pc = "done"
       /\ result.raised
       /\ result.err \in {"ResolutionError", "ModelNotFound"}
       /\ wmm_model = None
       /\ built = 0

\* ----------------------------------------------- bilinear_interpolation
IsBi == call.op = "bilinear_interpolation"

Positions(points) == { <<points[i][1], points[i][2]>> : i \in 1..4 }

Xs(points) == { points[i][1] : i \in 1..4 }

Ys(points) == { points[i][2] : i \in 1..4 }

Min(S) == CHOOSE m \in S : \A k \in S : m <= k

\* the four points are, in some order, the four combinations of two
\* x-values and two y-values (equal ones allowed)
IsCornerCombination(points) ==
    \E xa, xb \in Xs(points), ya, yb \in Ys(points) :
    \E perm \in [1..4 -> 1..4] :
        /\ \A i, j \in 1..4 : i # j => perm[i] # perm[j]
        /\ <<points[perm[1]][1], points[perm[1]][2]>> = <<xa, ya>>
        /\ <<points[perm[2]][1], points[perm[2]][2]>> = <<xa, yb>>
        /\ <<points[perm[3]][1], points[perm[3]][2]>> = <<xb, ya>>
        /\ <<points[perm[4]][1], points[perm[4]][2]>> = <<xb, yb>>

\* the corners of a rectangle of positive width and height, in any order
IsRectangle(points) ==
    /\ Cardinality(Xs(points)) = 2
    /\ Cardinality(Ys(points)) = 2
    /\ Cardinality(Positions(points)) = 4

IsDegenerate(points) ==
    /\ IsCornerCombination(points)
    /\ Cardinality(Xs(points)) = 1 \/ Cardinality(Ys(points)) = 1

Within(x, y, points) ==
    /\ Min(Xs(points)) <= x
    /\ x <= Max(Xs(points))
    /\ Min(Ys(points)) <= y
    /\ y <= Max(Ys(points))

\* the value sampled at the corner (cx, cy) of a rectangle
ValueAt(points, cx, cy) ==
    LET i == CHOOSE k \in 1..4 : points[k][1] = cx /\ points[k][2] = cy
    IN  points[i][3]

\* each corner weighted by the area of the sub-rectangle opposite to it,
\* over the area of the rectangle
AreaWeighted(x, y, points) ==
    LET xa == Min(Xs(points))   xb == Max(Xs(points))
        ya == Min(Ys(points))   yb == Max(Ys(points))
    IN  [nan |-> FALSE,
         num |-> ValueAt(points, xa, ya) * (xb - x) * (yb - y)
                 + ValueAt(points, xb, ya) * (x - xa) * (yb - y)
                 + ValueAt(points, xa, yb) * (xb - x) * (y - ya)
                 + ValueAt(points, xb, yb) * (x - xa) * (y - ya),
         den |-> (xb - xa) * (yb - ya)]

\* C7: for the corners of a rectangle of positive area, in any order, and a
\* point within it, the call returns the area-weighted average of the four
\* corner values; the documented call returns 165.
C7_AreaWeightedAverage ==
    (pc = "done" /\ IsBi) =>
       /\ (IsRectangle(call.points) /\ Within(call.x, call.y, call.points))
          => /\ ~result.raised
             /\ FSame(result.val, AreaWeighted(call.x, call.y, call.points))
       /\ (call \in DocCalls => ~result.raised /\ FSame(result.val, Fl(165)))

\* C8: for the corners of a rectangle in any order, a point within the
\* bounds (inclusive) is never rejected, and a point outside them fails with
\* the 'not within the rectangle' error.
C8_InsideAcceptedOutsideRejected ==
    (pc = "done" /\ IsBi /\ call.ptype = "ndarray"
        /\ IsRectangle(call.points)) =>
       IF Within(call.x, call.y, call.points)
       THEN ~result.raised
       ELSE result.raised /\ result.err = NotWithin

\* C9: the 'points do not form a rectangle' error is raised for every four
\* points that are not the corner combinations of two x-values and two
\* y-values, and for no four points that are the corners of a rectangle.
C9_NotARectangleExactly ==
    (pc = "done" /\ IsBi /\ call.ptype = "ndarray") =>
       /\ (~IsCornerCombination(call.points)
           => result.raised /\ result.err = NotARectangle)
       /\ (IsRectangle(call.points)
           => ~(result.raised /\ result.err = NotARectangle))

\* C10: on a rectangle of zero width or zero height (the query point
\* within its bounds) the call fails with the error for degenerate
\* rectangles: the zero area is never divided by, NaN is never returned.
C10_DegenerateRejected ==
    (pc = "done" /\ IsBi /\ call.ptype = "ndarray"
        /\ IsDegenerate(call.points)
        /\ Within(call.x, call.y, call.points)) =>
       /\ result.raised
       /\ result.err = "DegenerateRectangle"

Values(points) == { points[i][3] : i \in 1..4 }

\* lo <= a <= hi, for a float a (not NaN) of positive denominator
FBetween(a, lo, hi) ==
    /\ ~a.nan
    /\ a.den > 0
    /\ lo * a.den <= a.num
    /\ a.num <= hi * a.den

\* C11: for the corners of a rectangle, in any order, the call at the
\* coordinates of a corner returns that corner's value, and at any point
\* within the rectangle a value between the least and the greatest corner
\* value.
C11_CornerExactAndBounded ==
    (pc = "done" /\ IsBi /\ call.ptype = "ndarray"
        /\ IsRectangle(call.points)
        /\ Within(call.x, call.y, call.points)) =>
       /\ ~result.raised
       /\ FBetween(result.val, Min(Values(call.points)),
                   Max(Values(call.points)))
       /\ (<<call.x, call.y>> \in Positions(call.points)
           => FSame(result.val, Fl(ValueAt(call.points, call.x, call.y))))

\* -------------------------------------------------- magnetic_correction
IsMc == call.op = "magnetic_correction"

\* e * cos(t) + n * sin(t)
EastRotated(t, e, nth) ==
    FAdd(FTimes(e, [nan |-> FALSE, num |-> t.c, den |-> t.d]),
         FTimes(nth, [nan |-> FALSE, num |-> t.s, den |-> t.d]))

\* -e * sin(t) + n * cos(t)
NorthRotated(t, e, nth) ==
    FAdd(FTimes(e, [nan |-> FALSE, num |-> -t.s, den |-> t.d]),
         FTimes(nth, [nan |-> FALSE, num |-> t.c, den |-> t.d]))

\* C12: with an array of n >= 1 angles aligned with velocity arrays of
\* length n, the call returns two arrays of length n whose element i is the
\* pair (u[i], v[i]) rotated by theta[i].
C12_PerElementRotation ==
    (pc = "done" /\ IsMc /\ call.pass = 1 /\ call.theta.kind = "array"
        /\ Len(call.theta.v) = Len(call.u.v)) =>
       /\ ~result.raised
       /\ result.val.ndim = 1
       /\ Len(result.val.u_cor) = Len(call.u.v)
       /\ Len(result.val.v_cor) = Len(call.u.v)
       /\ \A i \in 1..Len(call.u.v) :
            /\ FSame(result.val.u_cor[i],
                     EastRotated(call.theta.v[i], call.u.v[i], call.v.v[i]))
            /\ FSame(result.val.v_cor[i],
                     NorthRotated(call.theta.v[i], call.u.v[i], call.v.v[i]))

\* C13: with one angle theta, the call returns two one-dimensional arrays as
\* long as the velocity arrays (of length 1 for scalar velocities) whose
\* element i is u[i]*cos(theta) + v[i]*sin(theta) and
\* -u[i]*sin(theta) + v[i]*cos(theta).
C13_ScalarRotation ==
    (pc = "done" /\ IsMc /\ call.pass = 1 /\ call.theta.kind = "scalar") =>
       LET us == call.u.v
           vs == call.v.v
       IN  /\ ~result.raised
           /\ result.val.ndim = 1
           /\ Len(result.val.u_cor) = Len(us)
           /\ Len(result.val.v_cor) = Len(us)
           /\ \A i \in 1..Len(us) :
                /\ FSame(result.val.u_cor[i],
                         EastRotated(call.theta.v[1], us[i], vs[i]))
                /\ FSame(result.val.v_cor[i],
                         NorthRotated(call.theta.v[1], us[i], vs[i]))

\* three velocity pairs were rotated by an angle that is no multiple of 90
\* degrees, the second pair being (2, -3)
C13_Witness ==
    /\ pc = "done"
    /\ IsMc
    /\ call.pass = 1
    /\ call.theta = Scalar(Angle(3, 4, 5))
    /\ call.u.kind = "array"
    /\ Len(call.u.v) = 3
    /\ call.u.v[2] = Fl(2)
    /\ call.v.v[2] = Fl(-3)
    /\ ~result.raised
    /\ FSame(result.val.u_cor[2], [nan |-> FALSE, num |-> -6, den |-> 5])
    /\ FSame(result.val.v_cor[2], [nan |-> FALSE, num |-> -17, den |-> 5])

\* C14: correcting by theta and then by -theta gives back every velocity
\* pair.
C14_RoundTrip ==
    (pc = "done" /\ IsMc /\ call.pass = 2) =>
       LET us == call.u.v
           vs == call.v.v
       IN  /\ ~result.raised
           /\ Len(result.val.u_cor) = Len(us)
           /\ Len(result.val.v_cor) = Len(us)
           /\ \A i \in 1..Len(us) :
                (~us[i].nan /\ ~vs[i].nan) =>
                   /\ FSame(result.val.u_cor[i], us[i])
                   /\ FSame(result.val.v_cor[i], vs[i])

\* the pair (2, -3) came back from the angle of the 5-12-13 triangle
C14_Witness ==
    /\ pc = "done"
    /\ IsMc
    /\ call.pass = 2
    /\ call.theta = Scalar(Angle(5, -12, 13))
    /\ call.u = Scalar(Fl(2))
    /\ call.v = Scalar(Fl(-3))
    /\ ~result.raised
    /\ FSame(result.val.u_cor[1], Fl(2))
    /\ FSame(result.val.v_cor[1], Fl(-3))

\* ----------------------------------------------------- ntp_to_unix_time
IsNtp == call.op = "ntp_to_unix_time"

\* C15: the offset computed from the dates 1900-01-01 and 1970-01-01 is the
\* constant that wmm_declination and wmm_declination_remod subtract
\* (2208988800 s, 36816480 min), and ntp_to_unix_time returns t minus that
\* constant for a scalar t and for every element of an array.
C15_ConstantOffset ==
    /\ NTP_DELTA = NTP_DELTA_MIN
    /\ (pc = "done" /\ IsNtp) =>
          /\ ~result.raised
          /\ result.val.kind = call.ntp_timestamp.kind
          /\ Len(result.val.v) = Len(call.ntp_timestamp.v)
          /\ \A i \in 1..Len(call.ntp_timestamp.v) :
               FSame(result.val.v[i],
                     [nan |-> call.ntp_timestamp.v[i].nan,
                      num |-> call.ntp_timestamp.v[i].num - NTP_DELTA_MIN,
                      den |-> 1])

\* an array of three timestamps was converted, the first being 2010-01-01
\* 00:00 UTC, 21038400 minutes after 1970-01-01
C15_Witness ==
    /\ pc = "done"
    /\ IsNtp
    /\ call.ntp_timestamp.kind = "array"
    /\ Len(call.ntp_timestamp.v) = 3
    /\ call.ntp_timestamp.v[1] = Fl(57854880)
    /\ ~result.raised
    /\ result.val.v[1] = Fl(21038400)

\* ---------------------------------------------------- extract_parameter
IsEp == call.op = "extract_parameter"

\* C16: for 0 <= index < len(in_array) the call returns the element at the
\* 0-based position index and the array is unchanged; for index >=
\* len(in_array) it fails with an index error and returns nothing.
C16_IndexedOrOutOfRange ==
    (pc = "done" /\ IsEp) =>
       /\ (0 <= call.index /\ call.index < Len(call.in_array))
          => /\ ~result.raised
             /\ result.val.out_value = call.in_array[call.index + 1]
             /\ result.val.in_array = call.in_array
       /\ call.index >= Len(call.in_array)
          => /\ result.raised
             /\ result.err = "IndexError"
             /\ result.val = None

\* extract_parameter([34, 67, 12, 15, 89, 100, 54, 36], 3) returned 15
C16_Witness ==
    /\ pc = "done"
    /\ IsEp
    /\ call.in_array = TestArray
    /\ call.index = 3
    /\ ~result.raised
    /\ result.val.out_value = 15

\* ------------------------------------------- batched and scalar path
\* wmm_declination on element i of the batch, its resource at hand
ScalarPath(i) ==
    wmm_declination(At(call.lat, i), At(call.lon, i),
                    At(call.ntp_timestamp, i), At(call.z, i), call.zflag,
                    TRUE)

\* C17: in a call of magnetic_declination with the 2010 model at hand, every
\* element evaluated by wmm_declination_remod, and every element of the
\* array returned, equals what wmm_declination returns for that element; an
\* element on which the batch fails is one on which wmm_declination fails
\* in the same way.
C17_BatchedEqualsScalar ==
    IsMd =>
       /\ \A i \in 1..Len(out) :
            /\ ~ScalarPath(i).raised
            /\ SameDeclination(out[i], ScalarPath(i).val)
       /\ (pc = "done" /\ ~result.raised) =>
            /\ Len(result.val) = n
            /\ \A i \in 1..n :
                 /\ ~ScalarPath(i).raised
                 /\ SameDeclination(result.val[i], ScalarPath(i).val)
       /\ (pc = "done" /\ result.raised /\ result.err = "ValueError") =>
            /\ ScalarPath(Len(out) + 1).raised
            /\ ScalarPath(Len(out) + 1).err = "ValueError"

\* a batch of three was returned whose first element is a depth of 1000 m
\* below sea level
C17_Witness ==
    /\ pc = "done"
    /\ IsMd
    /\ ~result.raised
    /\ n = 3
    /\ Len(call.z) = 3
    /\ call.z[1] = Fl(1000)
    /\ call.zflag = -1
    /\ ~result.val[1].nan
    /\ SameDeclination(result.val[1], ScalarPath(1).val)

====
